---- MODULE Spec2Model ----
(***************************************************************************)
(* Weekly "Egenbefordring" export robot: robot_framework/process.py and    *)
(* robot_framework/sub_processes/excel.py.                                 *)
(*                                                                         *)
(* Four specifications over one set of variables:                          *)
(*   Spec        repeated sequential runs of process() on one temp folder  *)
(*   SpecWindow  get_week_dates applied to bounded reference instants      *)
(*   SpecShape   modify_dataframe applied to bounded batches and policies  *)
(*   SpecConc    two runs merging into the same artifact, step by step     *)
(***************************************************************************)
EXTENDS Integers, Sequences, FiniteSets, TLC

VARIABLES
    \* ---- the machine: wall clock and the temp folder's files
    clock,            \* last instant datetime.now() returned
    temp_path_exists, \* whether the temp folder exists
    fs,               \* temp folder: file path -> workbook (sheet name -> rows)
    \* ---- one run of process() (Spec)
    pc,               \* "idle" | "loop" | "done" | "failed"
    fetched,          \* rows fetched by all runs so far
    ref,              \* the instant get_week_dates read (process.py:55)
    file_name,        \* process.py:113
    xl_sheetname,     \* process.py:82
    result,           \* cursor.fetchall() (process.py:111)
    k,                \* 1-based index of the next row of result
    dataframe_data,   \* the shaped batch of the last export_to_excel call
    op,               \* what the last loop iteration did
    err,              \* the exception that aborted the run, or "none"
    uploads,          \* upload_file_to_sharepoint calls of this run
    upload_file_present, \* whether the file existed when upload was called
    fs0,              \* history: fs when the run started
    \* ---- get_week_dates as a function (SpecWindow)
    number_of_weeks, today, week_dates,
    \* ---- modify_dataframe as a function (SpecShape)
    shape_in, shape_out,
    \* ---- two overlapping runs (SpecConc)
    serialized, procs

vars == <<clock, temp_path_exists, fs, pc, fetched, ref, file_name, xl_sheetname, result, k,
          dataframe_data, op, err, uploads, upload_file_present, fs0,
          number_of_weeks, today, week_dates, shape_in, shape_out,
          serialized, procs>>

runVars == <<clock, temp_path_exists, fs, pc, fetched, ref, file_name, xl_sheetname, result, k,
             dataframe_data, op, err, uploads, upload_file_present, fs0>>
windowVars == <<number_of_weeks, today, week_dates>>
shapeVars == <<shape_in, shape_out>>
concVars == <<serialized, procs>>

\* An optional int argument: None, or <<n>> for the int n.
None == <<>>

\* ------------------------------------------------------------------------
\* Bounds of the model
\* ------------------------------------------------------------------------
MaxFetched == 3      \* rows the queries of all runs return together
MaxWeeks == 2        \* number_of_weeks passed to get_week_dates
NumDays == 21        \* consecutive days the reference instant is drawn from
MaxCols == 3         \* columns of a batch handed to modify_dataframe
MaxMove == 2         \* entries of move_columns_to_last handed to modify_dataframe
MaxConcRecords == 2  \* rows each of two overlapping runs fetches

\* ------------------------------------------------------------------------
\* datetime: the proleptic Gregorian calendar as Python's datetime computes it
\* ------------------------------------------------------------------------
IsLeap(y) == (y % 4 = 0) /\ ((y % 100 # 0) \/ (y % 400 = 0))

DaysBeforeYear(y) ==
    LET p == y - 1 IN p * 365 + (p \div 4) - (p \div 100) + (p \div 400)

DaysInMonth(y, m) ==
    IF m = 2 THEN (IF IsLeap(y) THEN 29 ELSE 28)
    ELSE IF m \in {4, 6, 9, 11} THEN 30 ELSE 31

RECURSIVE DaysBeforeMonth(_, _)
DaysBeforeMonth(y, m) ==
    IF m = 1 THEN 0 ELSE DaysBeforeMonth(y, m - 1) + DaysInMonth(y, m - 1)

\* date.toordinal()
Ymd2Ord(y, m, d) == DaysBeforeYear(y) + DaysBeforeMonth(y, m) + d

\* date.fromordinal(): <<year, month, day>>
Ord2Ymd(n) ==
    LET n0 == n - 1
        n400 == n0 \div 146097
        r400 == n0 % 146097
        n100 == r400 \div 36524
        r100 == r400 % 36524
        n4 == r100 \div 1461
        r4 == r100 % 1461
        n1 == r4 \div 365
        r1 == r4 % 365
        year == n400 * 400 + 1 + n100 * 100 + n4 * 4 + n1
    IN  IF n1 = 4 \/ n100 = 4 THEN <<year - 1, 12, 31>>
        ELSE LET m == CHOOSE mm \in 1..12 :
                        /\ DaysBeforeMonth(year, mm) <= r1
                        /\ r1 < DaysBeforeMonth(year, mm) + DaysInMonth(year, mm)
             IN  <<year, m, r1 - DaysBeforeMonth(year, m) + 1>>

\* date.weekday(): Monday is 0
Weekday(ord) == (ord + 6) % 7

IsoWeek1Monday(y) ==
    LET firstday == Ymd2Ord(y, 1, 1)
        firstweekday == Weekday(firstday)
        week1monday == firstday - firstweekday
    IN  IF firstweekday > 3 THEN week1monday + 7 ELSE week1monday

\* date.isocalendar()[1]
IsoWeek(ord) ==
    LET year == Ord2Ymd(ord)[1]
        week == (ord - IsoWeek1Monday(year)) \div 7
    IN  IF week < 0 THEN ((ord - IsoWeek1Monday(year - 1)) \div 7) + 1
        ELSE IF week >= 52 /\ ord >= IsoWeek1Monday(year + 1) THEN 1
        ELSE week + 1

\* A datetime: day ordinal, second of the day, microsecond.
Instant(y, m, d, s, u) == [ord |-> Ymd2Ord(y, m, d), sec |-> s, us |-> u]

\* datetime - timedelta(weeks=n)
MinusWeeks(t, n) == [t EXCEPT !.ord = @ - 7 * n]

\* datetime + timedelta(days=d, seconds=s)
PlusDaysSeconds(t, d, s) ==
    LET total == t.sec + s
    IN  [ord |-> t.ord + d + (total \div 86400), sec |-> total % 86400, us |-> t.us]

\* t1 <= t2 on datetimes
Leq(t1, t2) ==
    \/ t1.ord < t2.ord
    \/ t1.ord = t2.ord /\ t1.sec < t2.sec
    \/ t1.ord = t2.ord /\ t1.sec = t2.sec /\ t1.us <= t2.us

\* strftime('%d%m%Y'): eight decimal digits
StrftimeDMY(t) ==
    LET ymd == Ord2Ymd(t.ord)
    IN  <<ymd[3] \div 10, ymd[3] % 10, ymd[2] \div 10, ymd[2] % 10,
          ymd[1] \div 1000, (ymd[1] \div 100) % 10, (ymd[1] \div 10) % 10, ymd[1] % 10>>

\* The instant the week is computed for (process.py:55 and :80).
Shifted(now, weeks) ==
    IF weeks # None /\ weeks[1] # 0 THEN MinusWeeks(now, weeks[1]) ELSE now

GetWeekDatesNoMidnight(now, weeks) ==
    LET t == Shifted(now, weeks)
        start_of_week == [t EXCEPT !.ord = @ - Weekday(t.ord)]
    IN  <<start_of_week, PlusDaysSeconds(start_of_week, 6, 86399)>>

\* get_week_dates: <<start_of_week, end_of_week>>
GetWeekDates(now, weeks) ==
    LET t == Shifted(now, weeks)
        start_of_week == [ord |-> t.ord - Weekday(t.ord), sec |-> 0, us |-> 0]
    IN  <<start_of_week, PlusDaysSeconds(start_of_week, 6, 86399)>>

\* ------------------------------------------------------------------------
\* Sequences
\* ------------------------------------------------------------------------
Range(s) == {s[i] : i \in 1..Len(s)}

\* s without the elements outside S, order kept
RECURSIVE Restrict(_, _)
Restrict(s, S) ==
    IF s = <<>> THEN <<>>
    ELSE IF Head(s) \in S THEN <<Head(s)>> \o Restrict(Tail(s), S)
    ELSE Restrict(Tail(s), S)

\* list.index(x)
IndexOf(s, x) == CHOOSE i \in 1..Len(s) : s[i] = x /\ \A j \in 1..(i - 1) : s[j] # x

\* list.pop(i)
RemoveAt(s, i) == SubSeq(s, 1, i - 1) \o SubSeq(s, i + 1, Len(s))

\* sequences over S without repetition, of length at most n
RECURSIVE InjSeqs(_, _)
InjSeqs(S, n) ==
    IF n = 0 THEN {<<>>}
    ELSE LET shorter == InjSeqs(S, n - 1)
         IN  shorter \cup UNION {{Append(s, x) : x \in S \ Range(s)} : s \in shorter}

\* sequences over S of length at most n
RECURSIVE SeqsUpTo(_, _)
SeqsUpTo(S, n) ==
    IF n = 0 THEN {<<>>}
    ELSE LET shorter == SeqsUpTo(S, n - 1)
         IN  shorter \cup {Append(s, x) : s \in shorter, x \in S}

\* ------------------------------------------------------------------------
\* Values and DataFrames
\* ------------------------------------------------------------------------
\* A value is <<type, payload>>: an int, a str (the payload identifies its
\* text; the text of str(n) for an int n is identified by n), a str that is a
\* column name, or None.
IntValue(n) == <<"int", n>>
S(text) == <<"str", text>>
Name(c) == <<"name", c>>
NoneValue == <<"none", 0>>

\* A DataFrame: the column order, and one mapping column -> value per row.
DataFrame(columns, rows) == [columns |-> columns, rows |-> rows]

\* dataframe[col] = values (a list with one value per row): an existing
\* column is overwritten in place, a new one is added at the end.
SetColumn(df, col, values) ==
    DataFrame(IF col \in Range(df.columns) THEN df.columns ELSE Append(df.columns, col),
              [j \in 1..Len(df.rows) |-> (col :> values[j]) @@ df.rows[j]])

Ok(df) == [err |-> "none", df |-> df]
Raise(e, df) == [err |-> e, df |-> df]

\* excel.py:49-55, add_columns as a sequence of <<name, values>> (dict order)
RECURSIVE AddColumns(_, _)
AddColumns(df, add_columns) ==
    IF add_columns = <<>> THEN Ok(df)
    ELSE LET col_name == Head(add_columns)[1]
             given == Head(add_columns)[2]
             col_data == IF Len(given) = 0 THEN [j \in 1..Len(df.rows) |-> NoneValue]
                         ELSE given
         IN  IF Len(col_data) # Len(df.rows) THEN Raise("ValueError_length", df)
             ELSE AddColumns(SetColumn(df, col_name, col_data), Tail(add_columns))

\* excel.py:57-58, DataFrame.drop(columns=..., inplace=True)
RemoveColumns(df, remove_columns) ==
    IF remove_columns = <<>> THEN Ok(df)
    ELSE IF ~(Range(remove_columns) \subseteq Range(df.columns)) THEN Raise("KeyError_drop", df)
    ELSE Ok(DataFrame(Restrict(df.columns, Range(df.columns) \ Range(remove_columns)),
                      [j \in 1..Len(df.rows) |->
                          [c \in DOMAIN df.rows[j] \ Range(remove_columns) |-> df.rows[j][c]]]))

RECURSIVE MoveColumnsToFront(_, _)
MoveColumnsToFront(df, move_columns_to_last) ==
    IF move_columns_to_last = <<>> THEN Ok(df)
    ELSE LET col == Head(move_columns_to_last)
         IN  IF col \in Range(df.columns)
             THEN LET cols == <<col>> \o RemoveAt(df.columns, IndexOf(df.columns, col))
                  IN  MoveColumnsToFront(DataFrame(cols, df.rows), Tail(move_columns_to_last))
             ELSE Raise("ValueError_missing_column", df)

\* excel.py:60-67
RECURSIVE MoveColumnsToLast(_, _)
MoveColumnsToLast(df, move_columns_to_last) ==
    IF move_columns_to_last = <<>> THEN Ok(df)
    ELSE LET col == Head(move_columns_to_last)
         IN  IF col \in Range(df.columns)
             THEN LET cols == Append(RemoveAt(df.columns, IndexOf(df.columns, col)), col)
                  IN  MoveColumnsToLast(DataFrame(cols, df.rows), Tail(move_columns_to_last))
             ELSE Raise("ValueError_missing_column", df)

\* excel.py:36-69, modify_dataframe
ModifyDataframe(df, add_columns, remove_columns, move_columns_to_last) ==
    LET added == AddColumns(df, add_columns)
    IN  IF added.err # "none" THEN added
        ELSE LET removed == RemoveColumns(added.df, remove_columns)
             IN  IF removed.err # "none" THEN removed
                 ELSE MoveColumnsToLast(removed.df, move_columns_to_last)

\* ------------------------------------------------------------------------
\* The workbook file: sheet name -> rows, a row a sequence of cells
\* ------------------------------------------------------------------------
\* DataFrame.to_excel(index=False): the header row, then one row per batch
\* row with the values as they are; None is written as an empty cell.
HeaderRow(df) == [i \in 1..Len(df.columns) |-> Name(df.columns[i])]
NativeRows(df) ==
    [j \in 1..Len(df.rows) |-> [i \in 1..Len(df.columns) |-> df.rows[j][df.columns[i]]]]

\* excel.py:90, str(cell) if cell is not None else "": an int becomes the
\* str of its decimal text, and a cell holding "" is saved as an empty cell.
CellStr(v) ==
    IF v[1] = "none" THEN NoneValue
    ELSE IF v[1] = "int" THEN S(v[2])
    ELSE v

\* excel.py:89-90, dataframe_to_rows(header=False, index=False) as strings
StringRows(df) ==
    [j \in 1..Len(df.rows) |->
        [i \in 1..Len(df.columns) |-> CellStr(df.rows[j][df.columns[i]])]]

AppendRowsOnTop(workbook, sheetname, df) ==
    [workbook EXCEPT ![sheetname] = <<Head(@)>> \o StringRows(df) \o Tail(@)]

AppendRowsDropsOld(workbook, sheetname, df) ==
    [workbook EXCEPT ![sheetname] = <<Head(@)>> \o StringRows(df)]

\* excel.py:88-91, sheet.append(row) for every row of the batch
AppendRows(workbook, sheetname, df) ==
    [workbook EXCEPT ![sheetname] = @ \o StringRows(df)]

\* workbook.save(filepath) / ExcelWriter close: the file holds the workbook
SaveFile(files, filepath, workbook) ==
    [p \in DOMAIN files \cup {filepath} |-> IF p = filepath THEN workbook ELSE files[p]]

CreateNewExcelNoHeader(files, filepath, sheetname, df) ==
    SaveFile(files, filepath, (sheetname :> NativeRows(df)))

\* excel.py:97-107, create_new_excel
CreateNewExcel(files, filepath, sheetname, df) ==
    SaveFile(files, filepath, (sheetname :> (<<HeaderRow(df)>> \o NativeRows(df))))

AppendToExistingSheetAddsSheet(files, filepath, sheetname, df) ==
    LET workbook == files[filepath]
        target == IF sheetname \in DOMAIN workbook THEN workbook
                  ELSE (sheetname :> <<>>) @@ workbook
    IN  [err |-> "none", fs |-> SaveFile(files, filepath, AppendRows(target, sheetname, df))]

\* excel.py:72-94, append_to_existing_sheet
AppendToExistingSheet(files, filepath, sheetname, df) ==
    LET workbook == files[filepath]
    IN  IF sheetname \notin DOMAIN workbook
        THEN [err |-> "ValueError_sheet_not_found", fs |-> files]
        ELSE [err |-> "none",
              fs |-> SaveFile(files, filepath, AppendRows(workbook, sheetname, df))]

\* excel.py:12-33, export_to_excel: the error raised, the folder's files
\* afterwards, the path taken and the shaped batch
ExportToExcel(files, filepath, sheetname, df, add_cols, remove_cols, move_cols) ==
    LET shaped == ModifyDataframe(df, add_cols, remove_cols, move_cols)
    IN  IF shaped.err # "none"
        THEN [err |-> shaped.err, fs |-> files, op |-> "fail", df |-> shaped.df]
        ELSE IF filepath \in DOMAIN files
        THEN LET appended == AppendToExistingSheet(files, filepath, sheetname, shaped.df)
             IN  [err |-> appended.err, fs |-> appended.fs,
                  op |-> IF appended.err = "none" THEN "append" ELSE "fail",
                  df |-> shaped.df]
        ELSE [err |-> "none", fs |-> CreateNewExcel(files, filepath, sheetname, shaped.df),
              op |-> "create", df |-> shaped.df]

\* ------------------------------------------------------------------------
\* process.py: the shape policy, the names, one fetched row
\* ------------------------------------------------------------------------
\* process.py:84-90
add_columns ==
    << <<"aendret_beloeb_i_alt", <<>> >>, <<"godkendt", <<>> >>, <<"godkendt_af", <<>> >>,
       <<"behandlet_ok", <<>> >>, <<"behandlet_fejl", <<>> >> >>
\* process.py:92
remove_columns == <<"koerselsliste_tomme_felter_tjek_">>
\* process.py:93
move_columns_to_last == <<"test", "attachments", "uuid">>

\* process.py:80, the ISO week number of the (shifted) instant read there
CurrentWeekNumber(now, weeks) == IsoWeek(Shifted(now, weeks).ord)

\* process.py:81 and :113, Egenbefordring_<week>_<ddmmyyyy>_<ddmmyyyy>.xlsx
FileName(week_number, week_start, week_end) ==
    <<"Egenbefordring", week_number, StrftimeDMY(week_start), StrftimeDMY(week_end)>>

\* process.py:82, <week>_<year of now>
SheetName(week_number, now) == <<week_number, Ord2Ymd(now.ord)[1]>>

\* A fetched row: reference, modtagelsesdato (a text that is ISO 8601 for the
\* datetime dt, or not ISO 8601), data (JSON text that parses to an object
\* whose 'data' yields n rows with the given keys, or does not parse).
Row(reference, iso, json_ok, keys, n) ==
    [reference |-> S(reference),
     modtagelsesdato |-> [iso |-> iso, dt |-> reference],
     data |-> [json_ok |-> json_ok, keys |-> keys, n |-> n]]

\* The value of key c in the j-th object of a payload.
DataValue(c, j) == IF c = "attachments" THEN S(j) ELSE IntValue(j)

\* process.py:119, strftime("%Y-%m-%d %H:%M:%S") of the datetime dt
StrftimeYMDHMS(dt) == <<"date", dt>>

\* process.py:121, pd.json_normalize(json_data['data'], sep='_', max_level=0)
JsonNormalize(data) ==
    DataFrame(data.keys,
              [j \in 1..data.n |-> [c \in Range(data.keys) |-> DataValue(c, j)]])

\* process.py:116-123: the batch of one fetched row, or the error raised
Normalize(row) ==
    IF ~row.modtagelsesdato.iso THEN Raise("ValueError_isoformat", DataFrame(<<>>, <<>>))
    ELSE IF ~row.data.json_ok THEN Raise("JSONDecodeError", DataFrame(<<>>, <<>>))
    ELSE LET df == JsonNormalize(row.data)
             dated == SetColumn(df, "modtagelsesdato",
                         [j \in 1..Len(df.rows) |-> StrftimeYMDHMS(row.modtagelsesdato.dt)])
         IN  Ok(SetColumn(dated, "uuid", [j \in 1..Len(df.rows) |-> row.reference]))

\* process.py:115-124, one iteration: normalize, then export_to_excel
MergeRow(files, filepath, sheetname, row) ==
    LET normalized == Normalize(row)
    IN  IF normalized.err # "none"
        THEN [err |-> normalized.err, fs |-> files, op |-> "fail", df |-> normalized.df]
        ELSE ExportToExcel(files, filepath, sheetname, normalized.df,
                           add_columns, remove_columns, move_columns_to_last)

\* ------------------------------------------------------------------------
\* Inputs
\* ------------------------------------------------------------------------
\* Instants at which a run may read the clock: the last microsecond of 2024
\* and the first of 2025, both inside ISO week 1 of 2025 (Mon 30 Dec - Sun
\* 5 Jan), and the last microsecond of that week and the first of the next.
RunInstants ==
    {Instant(2024, 12, 31, 86399, 999999), Instant(2025, 1, 1, 0, 0),
     Instant(2025, 1, 5, 86399, 999999), Instant(2025, 1, 6, 0, 0)}

ClockStart == Instant(2024, 12, 31, 86399, 999999)

\* Rows the query may return: a usual payload; one whose 'data' is a list of
\* two objects with another key order and an extra key; and rows that make a
\* step of the loop body raise (a text that is no ISO 8601 date, a text that
\* is no JSON, a payload without the trailing column 'test').
Records ==
    {Row(1, TRUE, TRUE, <<"koerselsliste_tomme_felter_tjek_", "a", "test", "attachments">>, 1),
     Row(2, TRUE, TRUE, <<"a", "b", "koerselsliste_tomme_felter_tjek_", "attachments", "test">>, 2),
     Row(3, FALSE, TRUE, <<"koerselsliste_tomme_felter_tjek_", "a", "test", "attachments">>, 1),
     Row(4, TRUE, FALSE, <<>>, 0),
     Row(5, TRUE, TRUE, <<"koerselsliste_tomme_felter_tjek_", "a", "attachments">>, 1)}

Results(n) == SeqsUpTo(Records, n)

\* What the three clock reads of a run (process.py:55, :80, :82) can give when
\* the clock last showed t: the clock may advance between the reads.
Readings(t) ==
    {<<n1, n2, n3>> \in RunInstants \X RunInstants \X RunInstants :
        Leq(t, n1) /\ Leq(n1, n2) /\ Leq(n2, n3)}

\* process.py:77-82 and :113 for the readings r
Derived(r) ==
    LET dates == GetWeekDates(r[1], None)
        current_week_number == CurrentWeekNumber(r[2], None)
    IN  [ref |-> r[1], clock |-> r[3],
         file_name |-> FileName(current_week_number, dates[1], dates[2]),
         xl_sheetname |-> SheetName(current_week_number, r[3])]

NoFiles == <<>>
NoBatch == DataFrame(<<>>, <<>>)

\* ------------------------------------------------------------------------
\* Spec: sequential runs of process()
\* ------------------------------------------------------------------------
InitRun ==
    /\ clock = ClockStart
    /\ temp_path_exists = FALSE
    /\ fs = NoFiles
    /\ pc = "idle"
    /\ fetched = 0
    /\ ref = ClockStart
    /\ file_name = <<>>
    /\ xl_sheetname = <<>>
    /\ result = <<>>
    /\ k = 1
    /\ dataframe_data = NoBatch
    /\ op = "none"
    /\ err = "none"
    /\ uploads = 0
    /\ upload_file_present = FALSE
    /\ fs0 = NoFiles

InitWindowIdle ==
    /\ number_of_weeks = None
    /\ today = ClockStart
    /\ week_dates = <<>>

InitShapeIdle ==
    /\ shape_in = [df |-> NoBatch, add_columns |-> <<>>, remove_columns |-> <<>>,
                   move_columns_to_last |-> <<>>]
    /\ shape_out = Raise("pending", NoBatch)

ConcRuns == {1, 2}
IdleProc ==
    [pc |-> "idle", k |-> 1, result |-> <<>>, file_name |-> <<>>, xl_sheetname |-> <<>>,
     dataframe_data |-> NoBatch, workbook |-> <<>>]

InitConcIdle ==
    /\ serialized = TRUE
    /\ procs = [r \in ConcRuns |-> IdleProc]

Init == InitRun /\ InitWindowIdle /\ InitShapeIdle /\ InitConcIdle

\* process.py:15-30 and :77-113: process() up to the fetched rows. The clock
\* is read three times (:55, :80, :82); it may advance between the reads.
StartRun ==
    /\ pc \in {"idle", "done", "failed"}
    /\ temp_path_exists' = TRUE
    /\ \E d \in {Derived(r) : r \in Readings(clock)} :
          /\ ref' = d.ref
          /\ clock' = d.clock
          /\ file_name' = d.file_name
          /\ xl_sheetname' = d.xl_sheetname
    /\ \/ /\ result' \in Results(MaxFetched - fetched)
          /\ pc' = "loop"
          /\ err' = "none"
       \/ /\ result' = <<>>
          /\ pc' = "failed"
          /\ err' = "ConnectivityError"
    /\ fetched' = fetched + Len(result')
    /\ k' = 1
    /\ dataframe_data' = NoBatch
    /\ op' = "none"
    /\ uploads' = 0
    /\ upload_file_present' = FALSE
    /\ fs0' = fs
    /\ fs' = fs
    /\ UNCHANGED <<windowVars, shapeVars, concVars>>

MergeRecordSkipsFailures ==
    /\ pc = "loop"
    /\ k <= Len(result)
    /\ LET merged == MergeRow(fs, file_name, xl_sheetname, result[k])
       IN  /\ fs' = merged.fs
           /\ op' = merged.op
           /\ dataframe_data' = merged.df
           /\ err' = "none"
           /\ pc' = "loop"
    /\ k' = k + 1
    /\ UNCHANGED <<clock, temp_path_exists, fetched, ref, file_name, xl_sheetname, result,
                   uploads, upload_file_present, fs0>>
    /\ UNCHANGED <<windowVars, shapeVars, concVars>>

\* process.py:115-124: one iteration of the loop; an exception ends the run
MergeRecord ==
    /\ pc = "loop"
    /\ k <= Len(result)
    /\ LET merged == MergeRow(fs, file_name, xl_sheetname, result[k])
       IN  /\ fs' = merged.fs
           /\ op' = merged.op
           /\ dataframe_data' = merged.df
           /\ err' = merged.err
           /\ IF merged.err = "none"
              THEN pc' = "loop" /\ k' = k + 1
              ELSE pc' = "failed" /\ k' = k
    /\ UNCHANGED <<clock, temp_path_exists, fetched, ref, file_name, xl_sheetname, result,
                   uploads, upload_file_present, fs0>>
    /\ UNCHANGED <<windowVars, shapeVars, concVars>>

\* process.py:126-129 and :32-36: after the loop the file is uploaded and the
\* temp folder removed. The upload raises when the file is missing or the
\* network or the authentication fails; nothing is retried.
Upload ==
    /\ pc = "loop"
    /\ k > Len(result)
    /\ uploads' = uploads + 1
    /\ upload_file_present' = (file_name \in DOMAIN fs)
    /\ \/ /\ file_name \in DOMAIN fs
          /\ pc' = "done"
          /\ err' = "none"
          /\ fs' = NoFiles
          /\ temp_path_exists' = FALSE
       \/ /\ pc' = "failed"
          /\ err' = "UploadError"
          /\ UNCHANGED <<fs, temp_path_exists>>
    /\ UNCHANGED <<clock, fetched, ref, file_name, xl_sheetname, result, k, dataframe_data,
                   op, fs0>>
    /\ UNCHANGED <<windowVars, shapeVars, concVars>>

Next == StartRun \/ MergeRecord \/ Upload

Spec == Init /\ [][Next]_vars

\* ------------------------------------------------------------------------
\* SpecWindow: get_week_dates on bounded inputs
\* ------------------------------------------------------------------------
Epoch == Ymd2Ord(2024, 12, 23)
WindowInstants ==
    {[ord |-> Epoch + d, sec |-> s, us |-> u] :
        d \in 0..(NumDays - 1), s \in {0, 1, 43200, 86399}, u \in {0, 1, 999999}}

InitWindow ==
    /\ InitRun /\ InitShapeIdle /\ InitConcIdle
    /\ today \in WindowInstants
    /\ number_of_weeks \in {None} \cup {<<n>> : n \in 0..MaxWeeks}
    /\ week_dates = <<>>

\* process.py:39-60 with datetime.now() returning today
ComputeWindow ==
    /\ week_dates = <<>>
    /\ week_dates' = GetWeekDates(today, number_of_weeks)
    /\ UNCHANGED <<today, number_of_weeks, runVars, shapeVars, concVars>>

NextWindow == ComputeWindow

SpecWindow == InitWindow /\ [][NextWindow]_vars

\* ------------------------------------------------------------------------
\* SpecShape: modify_dataframe on bounded inputs
\* ------------------------------------------------------------------------
ShapeNames == {"a", "b", "c", "d"}
ShapeBatches ==
    {DataFrame(cols, [j \in 1..n |-> [c \in Range(cols) |-> IntValue(j)]]) :
        cols \in InjSeqs(ShapeNames, MaxCols), n \in 1..2}
ShapeAdds ==
    {<<>>, << <<"x", <<>> >> >>, << <<"a", <<>> >> >>, << <<"x", <<IntValue(7)>> >> >>}
ShapeRemoves == {<<>>, <<"b">>}
ShapeMoves == SeqsUpTo(ShapeNames \cup {"x"}, MaxMove)

InitShape ==
    /\ InitRun /\ InitWindowIdle /\ InitConcIdle
    /\ shape_in \in [df : ShapeBatches, add_columns : ShapeAdds,
                     remove_columns : ShapeRemoves, move_columns_to_last : ShapeMoves]
    /\ shape_out = Raise("pending", NoBatch)

\* excel.py:28
ApplyShape ==
    /\ shape_out.err = "pending"
    /\ shape_out' = ModifyDataframe(shape_in.df, shape_in.add_columns,
                                    shape_in.remove_columns, shape_in.move_columns_to_last)
    /\ UNCHANGED <<shape_in, runVars, windowVars, concVars>>

NextShape == ApplyShape

SpecShape == InitShape /\ [][NextShape]_vars

\* ------------------------------------------------------------------------
\* Properties of the sequential runs (Spec)
\* ------------------------------------------------------------------------
Last(s) == s[Len(s)]

\* A step of the loop body (MergeRecord) is about to be taken.
InLoopBody == pc = "loop" /\ k <= Len(result)

\* C1: once the sheet has its header row, a merge into it writes only rows
\* whose columns are the header's columns in the header's order; a batch with
\* other columns is not written.
C1_AppendedRowsMatchHeader ==
    (op = "append" /\ file_name \in DOMAIN fs)
        => HeaderRow(dataframe_data) = fs[file_name][xl_sheetname][1]

\* C2: a merge into a present file that has the target sheet makes the sheet
\* longer by the batch size, puts the batch's rows at the bottom in order, and
\* changes no earlier row, no other sheet and no other file.
C2_AppendAddsBatchAtBottom ==
    [][(InLoopBody /\ op' = "append")
        => LET old == fs[file_name][xl_sheetname]
               new == fs'[file_name][xl_sheetname]
               batch == dataframe_data'
           IN  /\ Len(new) = Len(old) + result[k].data.n
               /\ Len(batch.rows) = result[k].data.n
               /\ SubSeq(new, 1, Len(old)) = old
               /\ \A j \in 1..Len(batch.rows) :
                     /\ new[Len(old) + j] = StringRows(batch)[j]
                     /\ Last(new[Len(old) + j]) = result[k].reference
               /\ DOMAIN fs' = DOMAIN fs
               /\ \A q \in DOMAIN fs \ {file_name} : fs'[q] = fs[q]
               /\ DOMAIN fs'[file_name] = DOMAIN fs[file_name]
               /\ \A sh \in DOMAIN fs[file_name] \ {xl_sheetname} :
                     fs'[file_name][sh] = fs[file_name][sh]]_vars

C2_Witness == op = "append" /\ pc = "loop" /\ Len(dataframe_data.rows) = 2

\* C3: a merge into a present file without the target sheet fails and leaves
\* every file as it was.
C3_MissingSheetFailsUnmodified ==
    [][(InLoopBody /\ file_name \in DOMAIN fs /\ xl_sheetname \notin DOMAIN fs[file_name])
        => (pc' = "failed" /\ err' # "none" /\ fs' = fs)]_vars

C3_Witness ==
    /\ pc = "failed" /\ err = "ValueError_sheet_not_found"
    /\ file_name \in DOMAIN fs /\ xl_sheetname \notin DOMAIN fs[file_name]

\* C4: a merge into an absent file creates it with the target sheet alone,
\* the shaped batch's columns as header row and one row per batch row; only
\* the first merge of a run creates, every later one appends.
C4_CreateOnFirstMergeOnly ==
    [][/\ (InLoopBody /\ pc' = "loop" /\ file_name \notin DOMAIN fs)
          => LET batch == dataframe_data'
             IN  /\ op' = "create"
                 /\ file_name \in DOMAIN fs'
                 /\ DOMAIN fs'[file_name] = {xl_sheetname}
                 /\ fs'[file_name][xl_sheetname][1]
                        = [i \in 1..Len(batch.columns) |-> Name(batch.columns[i])]
                 /\ Len(fs'[file_name][xl_sheetname]) = 1 + result[k].data.n
       /\ (InLoopBody /\ op' = "create") => (k = 1 /\ file_name \notin DOMAIN fs)
       /\ (InLoopBody /\ pc' = "loop" /\ k > 1) => op' = "append"]_vars

C4_Witness == op = "create" /\ pc = "loop" /\ k = 2 /\ file_name \in DOMAIN fs

\* The uuid cells the first n rows of rows contribute: one per batch row.
RECURSIVE ExpectedUuids(_, _)
ExpectedUuids(rows, n) ==
    IF n = 0 THEN <<>>
    ELSE ExpectedUuids(rows, n - 1) \o [j \in 1..rows[n].data.n |-> rows[n].reference]

\* The files are those of the start of the run plus the rows of the fetched
\* rows 1..k-1, merged into file_name.
MergedSoFar ==
    /\ DOMAIN fs \subseteq DOMAIN fs0 \cup {file_name}
    /\ \A q \in DOMAIN fs0 \ {file_name} : q \in DOMAIN fs /\ fs[q] = fs0[q]
    /\ IF k = 1 THEN fs = fs0
       ELSE /\ file_name \in DOMAIN fs
            /\ LET rows == fs[file_name][xl_sheetname]
                   base == IF file_name \in DOMAIN fs0
                           THEN Len(fs0[file_name][xl_sheetname]) ELSE 1
                   added == SubSeq(rows, base + 1, Len(rows))
               IN  /\ file_name \in DOMAIN fs0
                      => /\ SubSeq(rows, 1, base) = fs0[file_name][xl_sheetname]
                         /\ DOMAIN fs[file_name] = DOMAIN fs0[file_name]
                   /\ [i \in 1..Len(added) |-> Last(added[i])] = ExpectedUuids(result, k - 1)

\* C5: when normalizing or merging the k-th fetched row fails, the run ends
\* there: the files hold what they held before the run plus the rows of the
\* fetched rows 1..k-1, nothing is uploaded, and the failed run takes no
\* further step (the next step is the start of another run).
C5_FailureAbortsRun ==
    [][/\ (InLoopBody /\ op' = "fail")
          => (pc' = "failed" /\ k' = k /\ uploads' = 0 /\ fs' = fs /\ MergedSoFar')
       /\ (pc = "failed")
          => (k' = 1 /\ uploads' = 0 /\ fs' = fs /\ fs0' = fs)]_vars

C5_Witness == pc = "failed" /\ op = "fail" /\ k = 2 /\ uploads = 0

\* C6: two consecutive runs whose reference instants lie in the same
\* Monday-to-Sunday window derive the same file name and the same sheet name.
C6_SameWindowSameNames ==
    [][(pc \in {"done", "failed"} /\ GetWeekDates(ref', None) = GetWeekDates(ref, None))
        => (file_name' = file_name /\ xl_sheetname' = xl_sheetname)]_vars

\* C10: a run calls the upload at most once, only after every fetched row
\* was merged, and only with a file that exists.
C10_UploadOnceOfExistingFile ==
    /\ uploads <= 1
    /\ uploads = 1 => (k > Len(result) /\ upload_file_present)

\* ------------------------------------------------------------------------
\* Properties of get_week_dates (SpecWindow)
\* ------------------------------------------------------------------------
Computed == week_dates # <<>>

SecondsBetween(t1, t2) == (t2.ord - t1.ord) * 86400 + (t2.sec - t1.sec)

StartsMondayMidnightLastsAWeek ==
    LET start_of_week == week_dates[1]
        end_of_week == week_dates[2]
    IN  /\ Weekday(start_of_week.ord) = 0
        /\ start_of_week.sec = 0 /\ start_of_week.us = 0
        /\ SecondsBetween(start_of_week, end_of_week) = 6 * 86400 + 86399
        /\ end_of_week.us = start_of_week.us
        /\ Weekday(end_of_week.ord) = 6
        /\ Leq(start_of_week, Shifted(today, number_of_weeks))

\* C7 as stated: the window starts on a Monday at 00:00:00, ends 6 days
\* 23:59:59 later, and holds the reference instant less number_of_weeks weeks.
C7_WindowHoldsInstant ==
    Computed => /\ StartsMondayMidnightLastsAWeek
                /\ Leq(Shifted(today, number_of_weeks), week_dates[2])

\* C7 amended: ... and holds that instant cut to whole seconds (the instant
\* itself is less than one second after the end).
C7_WindowHoldsInstantToTheSecond ==
    Computed => /\ StartsMondayMidnightLastsAWeek
                /\ Leq([Shifted(today, number_of_weeks) EXCEPT !.us = 0], week_dates[2])

C7_Witness ==
    /\ Computed /\ number_of_weeks = <<1>>
    /\ Weekday(today.ord) = 6 /\ today.sec = 86399 /\ today.us = 999999

\* ------------------------------------------------------------------------
\* Properties of modify_dataframe (SpecShape)
\* ------------------------------------------------------------------------
\* s without repeated elements, each kept at its last occurrence
RECURSIVE LastOccurrences(_)
LastOccurrences(s) ==
    IF s = <<>> THEN <<>>
    ELSE IF Head(s) \in Range(Tail(s)) THEN LastOccurrences(Tail(s))
    ELSE <<Head(s)>> \o LastOccurrences(Tail(s))

Shaped == shape_out.err = "none"
Trailing == Range(shape_in.move_columns_to_last)

TrailingLastRestInOrder ==
    LET before == shape_in.df.columns
        after == shape_out.df.columns
    IN  /\ Trailing \subseteq Range(after)
        /\ \A i \in 1..Len(after) :
              (after[i] \in Trailing) <=> (i > Len(after) - Cardinality(Trailing))
        /\ Restrict(after, Range(before) \ Trailing) = Restrict(before, Range(after) \ Trailing)

\* C8 as stated: the trailing columns come last, in the order they had in the
\* input batch, and the other columns keep the order they had in the batch.
C8_TrailingKeepBatchOrder ==
    Shaped => /\ TrailingLastRestInOrder
              /\ Restrict(shape_out.df.columns, Trailing \cap Range(shape_in.df.columns))
                    = Restrict(shape_in.df.columns, Trailing)

\* C8 amended: the trailing columns come last, in the order of
\* move_columns_to_last (a name listed twice counts where it is listed last),
\* and the other columns keep the order they had in the batch.
C8_TrailingInListOrder ==
    Shaped => /\ TrailingLastRestInOrder
              /\ Restrict(shape_out.df.columns, Trailing)
                    = LastOccurrences(shape_in.move_columns_to_last)

C8_Witness ==
    /\ Shaped
    /\ shape_in.df.columns = <<"a", "b", "c">>
    /\ shape_in.move_columns_to_last = <<"b", "a">>
    /\ shape_out.df.columns = <<"c", "b", "a">>

\* ------------------------------------------------------------------------
\* SpecConc: two runs of process() on the same temp folder, each file access
\* a step of its own. With serialized, the scheduler starts a run only when
\* no other run is under way.
\* ------------------------------------------------------------------------
\* The rows run r fetches: n payloads with references of its own, all usual
\* ones, or the last with a text that is no ISO 8601 date.
ConcRows(r, n, last_iso) ==
    [i \in 1..n |->
        Row(10 * r + i, (i < n) \/ last_iso, TRUE,
            <<"koerselsliste_tomme_felter_tjek_", "a", "test", "attachments">>, 1)]

InitConc ==
    /\ InitRun /\ InitWindowIdle /\ InitShapeIdle
    /\ serialized \in BOOLEAN
    /\ procs = [r \in ConcRuns |-> IdleProc]

Ended(r) == procs[r].pc \in {"idle", "done", "failed"}

Fail(r) == procs' = [procs EXCEPT ![r].pc = "failed"]

\* process.py:15-30 and :77-113
CStart(r) ==
    /\ procs[r].pc = "idle"
    /\ serialized => \A q \in ConcRuns \ {r} : Ended(q)
    /\ temp_path_exists' = TRUE
    /\ \E d \in {Derived(x) : x \in Readings(clock)}, n \in 1..MaxConcRecords,
          last_iso \in BOOLEAN :
          /\ clock' = d.clock
          /\ procs' = [procs EXCEPT ![r] =
                  [IdleProc EXCEPT !.pc = "loop", !.result = ConcRows(r, n, last_iso),
                                   !.file_name = d.file_name,
                                   !.xl_sheetname = d.xl_sheetname]]
    /\ UNCHANGED <<fs, serialized>>
    /\ UNCHANGED <<pc, fetched, ref, file_name, xl_sheetname, result, k, dataframe_data,
                   op, err, uploads, upload_file_present, fs0, windowVars, shapeVars>>

\* process.py:115-124 and excel.py:28-30: the batch of the next fetched row is
\* shaped and os.path.isfile chooses the path to take
CShape(r) ==
    /\ procs[r].pc = "loop"
    /\ procs[r].k <= Len(procs[r].result)
    /\ LET normalized == Normalize(procs[r].result[procs[r].k])
           shaped == ModifyDataframe(normalized.df, add_columns, remove_columns,
                                     move_columns_to_last)
       IN  IF normalized.err # "none" \/ shaped.err # "none" THEN Fail(r)
           ELSE procs' = [procs EXCEPT ![r].dataframe_data = shaped.df,
                                       ![r].pc = IF procs[r].file_name \in DOMAIN fs
                                                 THEN "load" ELSE "create"]
    /\ UNCHANGED <<clock, temp_path_exists, fs, serialized>>
    /\ UNCHANGED <<pc, fetched, ref, file_name, xl_sheetname, result, k, dataframe_data,
                   op, err, uploads, upload_file_present, fs0, windowVars, shapeVars>>

\* excel.py:84-91: load_workbook, the sheet check, the rows appended in memory
CLoad(r) ==
    /\ procs[r].pc = "load"
    /\ IF procs[r].file_name \notin DOMAIN fs THEN Fail(r)
       ELSE IF procs[r].xl_sheetname \notin DOMAIN fs[procs[r].file_name] THEN Fail(r)
       ELSE procs' = [procs EXCEPT
                ![r].workbook = AppendRows(fs[procs[r].file_name], procs[r].xl_sheetname,
                                           procs[r].dataframe_data),
                ![r].pc = "save"]
    /\ UNCHANGED <<clock, temp_path_exists, fs, serialized>>
    /\ UNCHANGED <<pc, fetched, ref, file_name, xl_sheetname, result, k, dataframe_data,
                   op, err, uploads, upload_file_present, fs0, windowVars, shapeVars>>

\* excel.py:93-94: workbook.save writes the workbook held in memory
CSave(r) ==
    /\ procs[r].pc = "save"
    /\ IF ~temp_path_exists THEN Fail(r) /\ fs' = fs
       ELSE /\ fs' = SaveFile(fs, procs[r].file_name, procs[r].workbook)
            /\ procs' = [procs EXCEPT ![r].pc = "loop", ![r].k = @ + 1]
    /\ UNCHANGED <<clock, temp_path_exists, serialized>>
    /\ UNCHANGED <<pc, fetched, ref, file_name, xl_sheetname, result, k, dataframe_data,
                   op, err, uploads, upload_file_present, fs0, windowVars, shapeVars>>

\* excel.py:106-107: the new file is written
CCreate(r) ==
    /\ procs[r].pc = "create"
    /\ IF ~temp_path_exists THEN Fail(r) /\ fs' = fs
       ELSE /\ fs' = CreateNewExcel(fs, procs[r].file_name, procs[r].xl_sheetname,
                                    procs[r].dataframe_data)
            /\ procs' = [procs EXCEPT ![r].pc = "loop", ![r].k = @ + 1]
    /\ UNCHANGED <<clock, temp_path_exists, serialized>>
    /\ UNCHANGED <<pc, fetched, ref, file_name, xl_sheetname, result, k, dataframe_data,
                   op, err, uploads, upload_file_present, fs0, windowVars, shapeVars>>

\* process.py:126-129 and :32-36: upload, then the temp folder is removed
CFinish(r) ==
    /\ procs[r].pc = "loop"
    /\ procs[r].k > Len(procs[r].result)
    /\ \/ /\ procs[r].file_name \in DOMAIN fs
          /\ procs' = [procs EXCEPT ![r].pc = "done"]
          /\ fs' = NoFiles
          /\ temp_path_exists' = FALSE
       \/ /\ Fail(r)
          /\ UNCHANGED <<fs, temp_path_exists>>
    /\ UNCHANGED <<clock, serialized>>
    /\ UNCHANGED <<pc, fetched, ref, file_name, xl_sheetname, result, k, dataframe_data,
                   op, err, uploads, upload_file_present, fs0, windowVars, shapeVars>>

NextConc ==
    \E r \in ConcRuns :
        CStart(r) \/ CShape(r) \/ CLoad(r) \/ CSave(r) \/ CCreate(r) \/ CFinish(r)

SpecConc == InitConc /\ [][NextConc]_vars

\* ------------------------------------------------------------------------
\* Properties of overlapping runs (SpecConc)
\* ------------------------------------------------------------------------
\* The uuid cells of the rows of the sheet run r merges into.
UuidCells(r) ==
    IF procs[r].xl_sheetname \notin DOMAIN fs[procs[r].file_name] THEN {}
    ELSE LET rows == fs[procs[r].file_name][procs[r].xl_sheetname]
         IN  {Last(rows[i]) : i \in 2..Len(rows)}

\* A row run r merged and saved is missing from the file, which no run has
\* removed.
LostRow(r) ==
    /\ \A q \in ConcRuns : procs[q].pc # "done"
    /\ procs[r].pc # "idle"
    /\ procs[r].file_name \in DOMAIN fs
    /\ \E i \in 1..(procs[r].k - 1) : procs[r].result[i].reference \notin UuidCells(r)

\* C9: with the runs serialized no merged row is ever lost (and without, some
\* interleaving loses one: C9_Witness).
C9_SerializedRunsLoseNoRow ==
    serialized => \A r \in ConcRuns : ~LostRow(r)

C9_Witness ==
    /\ ~serialized
    /\ \E r \in ConcRuns : LostRow(r)
    /\ \A r \in ConcRuns : procs[r].pc = "loop" /\ procs[r].k > Len(procs[r].result)

====
